---- MODULE Spec2Model ----
(***************************************************************************)
(* Model of the matrix container of matrix_3_0/matrix.hpp (the class at    *)
(* lines 737-956 and matrix_size_type at lines 268-283).                   *)
(*                                                                         *)
(* The state is a set of matrix objects, the allocator's heap, and the     *)
(* trace (log) of the allocator and element-type calls made by the last    *)
(* public operation.  Every public operation is one action; the private   *)
(* helpers are operators over a "world" record w that carries the object   *)
(* the member function runs on (sz, space, elems), the heap, the log, the  *)
(* locals of the populating loops and the pending exception.               *)
(*                                                                         *)
(* An operation is called when the program is idle and leaves its record   *)
(* (last) and its trace (log) behind; Return hands control back to the     *)
(* caller, which drops both.  Addresses are opaque to the program, so      *)
(* Return also renames the live buffers to 1..n in a fixed order: this     *)
(* identifies heaps that differ only in the addresses the allocator chose. *)
(* An operation that frees or destroys through an invalid handle, or reads *)
(* outside a buffer, leaves the process corrupt: nothing is modelled after *)
(* that.                                                                   *)
(*                                                                         *)
(* Indices are 0-based as in the source; a buffer's cells are a sequence,  *)
(* so slot i of a buffer is cells[i + 1].                                  *)
(***************************************************************************)
EXTENDS Integers, Sequences, FiniteSets, TLC

\* ---------------------------------------------------------------- bounds
MaxRows == 2
MaxCols == 2
MaxVal == 1
\* the largest small component of the extents that are compared
MaxExtent == 3
\* TLC's integers are 32 bits wide: std::size_t is modelled with SizeBits bits,
\* which is far above every row and column count of the model.
SizeBits == 16

SizeMod == 2 ^ SizeBits
Vals == 0 .. MaxVal
Mats == {"a", "b"}

\* ------------------------------------------------------------ constants
\* nullptr
Null == 0
\* the content of storage that allocate returned and nothing has written yet
Raw == -1
\* an address that is no live allocation (stale or arbitrary)
Wild == -2
\* the value of T() for the arithmetic element types the tests use
DefaultValue == 0

\* size_t arithmetic
Wrap(x) == x % SizeMod

\* ------------------------------------------------------ matrix_size_type
Area(e) == Wrap(e[1] * e[2])
\* a variant that orders extents by rows, then by cols
SizeLtLexicographic(e1, e2) == e1[1] < e2[1] \/ (e1[1] = e2[1] /\ e1[2] < e2[2])

SizeLt(e1, e2) == Area(e1) < Area(e2)
SizeGe(e1, e2) == ~SizeLt(e1, e2)
SizeGt(e1, e2) == SizeLt(e2, e1)
SizeLe(e1, e2) == ~SizeGt(e1, e2)
SizeEq(e1, e2) == ~(SizeLt(e1, e2) \/ SizeGt(e1, e2))
SizeNe(e1, e2) == ~SizeEq(e1, e2)

\* ------------------------------------------------------------------ state
VARIABLES mats, heap, log, last, corrupt
vars == <<mats, heap, log, last, corrupt>>

\* the members of a default-initialised matrix (lines 952-954)
DefaultMembers == [sz |-> <<0, 0>>, space |-> <<0, 0>>, elems |-> Null]

\* The environment of one operation: the element type throws on its
\* failCopy-th copy and the allocator on its failAlloc-th allocate (0: never),
\* the build returns nullptr from allocate(0) or not, and garbage[r] is what
\* the uninitialised slot r of a fresh row array happens to hold.
NoFault ==
  [failCopy |-> 0, failAlloc |-> 0, zeroNull |-> FALSE,
   garbage |-> [r \in 0 .. MaxRows - 1 |-> Null]]

\* The world a member function runs in.
World(obj, h) ==
  [sz |-> obj.sz, space |-> obj.space, elems |-> obj.elems,
   heap |-> h, log |-> <<>>, ub |-> FALSE, halt |-> FALSE, exc |-> "none",
   currRow |-> 0, currCol |-> 0, first |-> 1, copies |-> 0, allocs |-> 0,
   env |-> NoFault]

\* the same world, running under the environment e
Under(w, e) == [w EXCEPT !.env = e]

Members(w) == [sz |-> w.sz, space |-> w.space, elems |-> w.elems]

Emit(w, ev) == [w EXCEPT !.log = Append(@, ev)]

\* -------------------------------------------------------------- allocator
\* The allocator hands out the lowest address that is not live.
FreshAddr(h) == CHOOSE a \in 1 .. (Cardinality(DOMAIN h) + 1) : a \notin DOMAIN h

\* allocate(n): a buffer of n uninitialised slots.  The result of allocate(0)
\* is unspecified: env.zeroNull says whether this build returns nullptr for it.
\* The address is returned in ret.
\* A failing allocate throws std::bad_alloc and returns nothing.
Allocate(w, n, row) ==
  LET w0 == [w EXCEPT !.allocs = @ + 1]
  IN IF w0.allocs = w.env.failAlloc
     THEN [ret |-> Null, w |-> [w0 EXCEPT !.exc = "bad_alloc"]]
     ELSE IF n = 0 /\ w.env.zeroNull
     THEN [ret |-> Null, w |-> Emit(w0, <<"alloc", Null, row, 0>>)]
     ELSE LET a == FreshAddr(w.heap)
          IN [ret |-> a,
              w |-> Emit([w0 EXCEPT !.heap = (a :> [i \in 1 .. n |-> Raw]) @@ @],
                         <<"alloc", a, row, n>>)]

\* deallocate(p, n) for a handle p read from an initialised place.
Deallocate(w, p, row, n) ==
  LET w1 == Emit(w, <<"dealloc", p, row, n>>)
  IN IF p \in DOMAIN w.heap
     THEN [w1 EXCEPT !.heap = [a \in DOMAIN w.heap \ {p} |-> w.heap[a]]]
     ELSE IF p = Null THEN w1
     ELSE [w1 EXCEPT !.ub = TRUE]

\* deallocate(p, n) for a handle p that is the content of an uninitialised
\* slot: p is whatever the memory held.  Releasing nullptr does nothing;
\* anything else releases a buffer this handle does not own, or no buffer.
DeallocateUninit(w, p, row, n) ==
  LET w1 == Emit(w, <<"dealloc_uninit", p, row, n>>)
  IN IF p = Null THEN w1
     ELSE IF p \in DOMAIN w.heap
     THEN [w1 EXCEPT !.heap = [a \in DOMAIN w.heap \ {p} |-> w.heap[a]], !.ub = TRUE]
     ELSE [w1 EXCEPT !.ub = TRUE]

\* ---------------------------------------------------------- element type
\* ::new (&(elems_[row][col])) T(v), through the initialised row handle p
PlacementNew(w, p, row, col, v) ==
  Emit([w EXCEPT !.heap[p][col + 1] = v], <<"ctor", p, row, col>>)

\* elems_[row][col].~T(), through the initialised row handle p.  Destroying
\* a slot that holds no object is undefined.
DestroyAt(w, p, row, col) ==
  LET w1 == Emit(w, <<"dtor", p, row, col>>)
  IN IF p \in DOMAIN w.heap /\ col < Len(w.heap[p]) /\ w.heap[p][col + 1] # Raw
     THEN [w1 EXCEPT !.heap[p][col + 1] = Raw]
     ELSE [w1 EXCEPT !.ub = TRUE]

\* the same through a handle that is the content of an uninitialised slot
DestroyAtUninit(w, p, row, col) ==
  [Emit(w, <<"dtor_uninit", p, row, col>>) EXCEPT !.ub = TRUE]

\* ---------------------------------------------------------- the row array
\* elems_[row] = p
SetRow(w, row, p) == [w EXCEPT !.heap[w.elems][row + 1] = p]

\* What reading elems_[row] gives: the handle stored there, the garbage of an
\* uninitialised slot, or an access outside the row array.
RowKind(w, row) ==
  IF w.elems \notin DOMAIN w.heap \/ row >= Len(w.heap[w.elems]) THEN "oob"
  ELSE IF w.heap[w.elems][row + 1] = Raw THEN "uninit"
  ELSE "handle"

RowHandle(w, row) ==
  IF RowKind(w, row) = "handle" THEN w.heap[w.elems][row + 1]
  ELSE w.env.garbage[row]

\* an access to elems_[row] outside the row array: the operation stops there
OutOfArray(w, row) ==
  [Emit(w, <<"oob", w.elems, row, 0>>) EXCEPT !.ub = TRUE, !.halt = TRUE]

\* for (col = from; col < upto; ++col) elems_[row][col].~T();
RECURSIVE DestroyCols(_, _, _, _)
DestroyCols(w, row, col, upto) ==
  IF w.halt \/ col >= upto THEN w
  ELSE IF RowKind(w, row) = "oob" THEN OutOfArray(w, row)
  ELSE IF RowKind(w, row) = "uninit"
  THEN DestroyCols(DestroyAtUninit(w, RowHandle(w, row), row, col), row, col + 1, upto)
  ELSE DestroyCols(DestroyAt(w, RowHandle(w, row), row, col), row, col + 1, upto)

\* (alloc_.inner_allocator()).deallocate(elems_[row], countCols);
DeallocateRow(w, row, countCols) ==
  IF w.halt THEN w
  ELSE IF RowKind(w, row) = "oob" THEN OutOfArray(w, row)
  ELSE IF RowKind(w, row) = "uninit"
  THEN DeallocateUninit(w, RowHandle(w, row), row, countCols)
  ELSE Deallocate(w, RowHandle(w, row), row, countCols)

\* ------------------------------------------ destroy_and_deallocate_elems
\* a variant that deallocates each row before destroying its elements
RECURSIVE DeallocateThenDestroyRows(_, _, _, _)
DeallocateThenDestroyRows(w, row, currRow, countCols) ==
  IF w.halt \/ row >= currRow THEN w
  ELSE DeallocateThenDestroyRows(
         DestroyCols(DeallocateRow(w, row, countCols), row, 0, countCols),
         row + 1, currRow, countCols)

\* for (row = from; row < currRow; ++row) { destroy the row; deallocate it; }
RECURSIVE DestroyRowsBefore(_, _, _, _)
DestroyRowsBefore(w, row, currRow, countCols) ==
  IF w.halt \/ row >= currRow THEN w
  ELSE DestroyRowsBefore(
         DeallocateRow(DestroyCols(w, row, 0, countCols), row, countCols),
         row + 1, currRow, countCols)

\* for (row = from; row < countRows; ++row) deallocate(elems_[row], countCols);
RECURSIVE DeallocateRowsAfter(_, _, _, _)
DeallocateRowsAfter(w, row, countRows, countCols) ==
  IF w.halt \/ row >= countRows THEN w
  ELSE DeallocateRowsAfter(DeallocateRow(w, row, countCols), row + 1, countRows, countCols)

\* a variant that resets elems_ and sz_ and forgets space_
ReleaseRowArrayKeepCapacity(w, countRows) ==
  IF w.halt THEN w
  ELSE [Deallocate(w, w.elems, -1, countRows) EXCEPT !.elems = Null, !.sz = <<0, 0>>]

\* a variant that releases the row array and keeps the members as they were
ReleaseRowArrayKeepMembers(w, countRows) ==
  IF w.halt THEN w ELSE Deallocate(w, w.elems, -1, countRows)

\* alloc_.deallocate(elems_, countRows); elems_ = nullptr; sz_ = {}; space_ = sz_;
ReleaseRowArray(w, countRows) ==
  IF w.halt THEN w
  ELSE [Deallocate(w, w.elems, -1, countRows)
          EXCEPT !.elems = Null, !.sz = <<0, 0>>, !.space = <<0, 0>>]

\* a variant that destroys the whole current row instead of [0, currCol)
destroy_whole_current_row(w, countRows, countCols, currRow, currCol) ==
  IF w.elems = Null THEN w
  ELSE LET w1 == DestroyRowsBefore(w, 0, currRow, countCols)
           w2 == DeallocateRow(DestroyCols(w1, currRow, 0, countCols), currRow, countCols)
           w3 == DeallocateRowsAfter(w2, Wrap(currRow + 1), countRows, countCols)
       IN ReleaseRowArray(w3, countRows)

destroy_and_deallocate_elems(w, countRows, countCols, currRow, currCol) ==
  IF w.elems = Null THEN w
  ELSE LET w1 == DestroyRowsBefore(w, 0, currRow, countCols)
           w2 == DeallocateRow(DestroyCols(w1, currRow, 0, currCol), currRow, countCols)
           w3 == DeallocateRowsAfter(w2, Wrap(currRow + 1), countRows, countCols)
       IN ReleaseRowArray(w3, countRows)

\* ------------------------------------------------------ populating loops
\* a variant that never advances the iterator
SourceStuck(w, src) ==
  IF src.kind = "value" THEN src.v
  ELSE IF src.kind = "iter" THEN src.s[1]
  ELSE w.heap[w.heap[src.other][w.currRow + 1]][w.currCol + 1]

\* The value the element at (currRow, currCol) is copied from: the fill
\* value, *first, or other_elems[currRow][currCol].
Source(w, src) ==
  IF src.kind = "value" THEN src.v
  ELSE IF src.kind = "iter" THEN src.s[w.first]
  ELSE w.heap[w.heap[src.other][w.currRow + 1]][w.currCol + 1]

\* for (currCol = from; currCol < cols; ++currCol [, ++first]) ::new (...) T(...)
\* T's copy constructor throws on the env.failCopy-th copy of the operation.
RECURSIVE PopulateRow(_, _, _)
PopulateRow(w, cols, src) ==
  IF w.currCol >= cols THEN w
  ELSE IF w.copies + 1 = w.env.failCopy
  THEN [w EXCEPT !.copies = @ + 1, !.exc = "element"]
  ELSE PopulateRow(
         [PlacementNew(w, RowHandle(w, w.currRow), w.currRow, w.currCol, Source(w, src))
            EXCEPT !.copies = @ + 1,
                   !.currCol = @ + 1,
                   !.first = IF src.kind = "iter" THEN @ + 1 ELSE @],
         cols, src)

\* for (currRow = from; currRow < rows; ++currRow) {
\*     elems_[currRow] = (alloc_.inner_allocator()).allocate(cols);
\*     for (currCol = 0; ...) ... }
RECURSIVE PopulateRows(_, _, _, _)
PopulateRows(w, rows, cols, src) ==
  IF w.currRow >= rows THEN w
  ELSE LET r == Allocate(w, cols, w.currRow)
       IN IF r.w.exc # "none" THEN r.w
          ELSE LET w1 == PopulateRow([SetRow(r.w, w.currRow, r.ret) EXCEPT !.currCol = 0],
                                     cols, src)
               IN IF w1.exc # "none" THEN w1
                  ELSE PopulateRows([w1 EXCEPT !.currRow = @ + 1], rows, cols, src)

\* try { ... } catch (...) { destroy_and_deallocate_elems(rows, cols, currRow, currCol); throw; }
Unwind(w, rows, cols) ==
  IF w.exc = "none" THEN w
  ELSE LET w1 == destroy_and_deallocate_elems(w, rows, cols, w.currRow, w.currCol)
       IN IF w1.halt THEN w1 ELSE Emit(w1, <<"rethrow", Null, w.currRow, w.currCol>>)

ValueSource(v) == [kind |-> "value", v |-> v, s |-> <<>>, other |-> Null]
IterSource(s) == [kind |-> "iter", v |-> 0, s |-> s, other |-> Null]
CopySource(other) == [kind |-> "copy", v |-> 0, s |-> <<>>, other |-> other]

\* a variant that fills with T() whatever the value
construct_with_default(w, rows, cols, value) ==
  IF rows # cols /\ (rows = 0 \/ cols = 0)
  THEN [w EXCEPT !.exc = "invalid_argument"]
  ELSE LET r == Allocate(w, rows, -1)
       IN IF r.w.exc # "none" THEN r.w
          ELSE LET w1 == [r.w EXCEPT !.elems = r.ret,
                                     !.sz = <<rows, cols>>,
                                     !.space = <<rows, cols>>,
                                     !.currRow = 0, !.currCol = 0]
               IN Unwind(PopulateRows(w1, rows, cols, ValueSource(DefaultValue)), rows, cols)

\* a variant that rejects every zero dimension, (0, 0) included
construct_rejecting_zero(w, rows, cols, value) ==
  IF rows = 0 \/ cols = 0
  THEN [w EXCEPT !.exc = "invalid_argument"]
  ELSE LET r == Allocate(w, rows, -1)
       IN IF r.w.exc # "none" THEN r.w
          ELSE LET w1 == [r.w EXCEPT !.elems = r.ret,
                                     !.sz = <<rows, cols>>,
                                     !.space = <<rows, cols>>,
                                     !.currRow = 0, !.currCol = 0]
               IN Unwind(PopulateRows(w1, rows, cols, ValueSource(value)), rows, cols)

construct_with_value(w, rows, cols, value) ==
  IF rows # cols /\ (rows = 0 \/ cols = 0)
  THEN [w EXCEPT !.exc = "invalid_argument"]
  ELSE LET r == Allocate(w, rows, -1)
       IN IF r.w.exc # "none" THEN r.w
          ELSE LET w1 == [r.w EXCEPT !.elems = r.ret,
                                     !.sz = <<rows, cols>>,
                                     !.space = <<rows, cols>>,
                                     !.currRow = 0, !.currCol = 0]
               IN Unwind(PopulateRows(w1, rows, cols, ValueSource(value)), rows, cols)

assign_elems(w, rows, cols, other_elems) ==
  LET w0 == [w EXCEPT !.sz = <<rows, cols>>, !.space = <<rows, cols>>]
      r == Allocate(w0, rows, -1)
  IN IF r.w.exc # "none" THEN r.w
     ELSE LET w1 == [r.w EXCEPT !.elems = r.ret, !.currRow = 0, !.currCol = 0]
          IN Unwind(PopulateRows(w1, rows, w1.sz[2], CopySource(other_elems)), rows, cols)

construct_from_iterators(w, rows, cols, s) ==
  LET w0 == [w EXCEPT !.sz = <<rows, cols>>, !.space = <<rows, cols>>]
      r == Allocate(w0, rows, -1)
  IN IF r.w.exc # "none" THEN r.w
     ELSE LET w1 == [r.w EXCEPT !.elems = r.ret, !.currRow = 0, !.currCol = 0, !.first = 1]
          IN Unwind(PopulateRows(w1, rows, cols, IterSource(s)), rows, cols)

\* ------------------------------------------------------ public operations
\* the member function runs on object obj from here on
OnObject(w, obj) == [w EXCEPT !.sz = obj.sz, !.space = obj.space, !.elems = obj.elems]

\* bool empty() const noexcept { return sz_ == matrix_size_type{ 0,0 }; }
empty(obj) == SizeEq(obj.sz, <<0, 0>>)

\* explicit matrix(size_type cols, It first, It last)
\* (the initializer-list constructor delegates to it); s is [first, last)
matrix_range(w, cols, s) ==
  IF cols = 0
  THEN IF s = <<>> THEN w ELSE [w EXCEPT !.exc = "invalid_argument"]
  ELSE LET count_elems == Len(s)
           rows == count_elems \div cols
       IN construct_from_iterators(w, rows, cols, s)

\* matrix(const matrix& other)
matrix_copy(w, other) ==
  IF empty(other) THEN w
  ELSE assign_elems(w, other.sz[1], other.sz[2], other.elems)

\* a variant that exchanges sz_ and elems_ and leaves space_ where it was
swap_without_capacity(this, other) ==
  [this |-> [other EXCEPT !.space = this.space],
   other |-> [this EXCEPT !.space = other.space]]

\* void swap(matrix& other) noexcept: the members of (this, other) afterwards
swap(this, other) == [this |-> other, other |-> this]

\* matrix(matrix&& other) noexcept { this->swap(other); }
matrix_move(other) == swap(DefaultMembers, other)

\* a variant that copies the source's members and leaves the source as it was
move_assign_keeping_source(this, other, same) ==
  IF same THEN [this |-> this, other |-> other]
  ELSE [this |-> other, other |-> other]

\* a variant that takes the source's members and leaves the source empty
move_assign_emptying(this, other, same) ==
  IF same THEN [this |-> this, other |-> other]
  ELSE [this |-> other, other |-> DefaultMembers]

\* matrix& operator=(matrix&& other) noexcept
move_assign(this, other, same) ==
  IF same THEN [this |-> this, other |-> other]
  ELSE swap(this, other)

\* void clear()
clear(w) ==
  destroy_and_deallocate_elems(w, w.space[1], w.space[2], Wrap(w.sz[1] - 1), w.sz[2])

\* matrix& operator=(const matrix& other): tmp is copy-constructed, swapped
\* with *this and destroyed.  The result is the world of the last member
\* function that ran, with *this in this.
copy_assign(w, this, other, same) ==
  IF same THEN [this |-> this, w |-> w]
  ELSE LET t == matrix_copy(OnObject(w, DefaultMembers), other)
       IN IF t.exc # "none" THEN [this |-> this, w |-> t]
          ELSE LET sw == swap(this, Members(t))
               IN [this |-> sw.this, w |-> clear(OnObject(t, sw.other))]

\* a variant that accepts the index one past the end
check_index_one_past(obj, row, col) ==
  IF row > obj.sz[1] THEN "out_of_range"
  ELSE IF col > obj.sz[2] THEN "out_of_range"
  ELSE "none"

\* void check_index(size_type row, size_type col) const
check_index(obj, row, col) ==
  IF row >= obj.sz[1] THEN "out_of_range"
  ELSE IF col >= obj.sz[2] THEN "out_of_range"
  ELSE "none"

\* elems_[row][col]; a read outside the storage gives no element
ElementAt(h, obj, row, col) ==
  IF /\ obj.elems \in DOMAIN h
     /\ row < Len(h[obj.elems])
     /\ h[obj.elems][row + 1] \in DOMAIN h
     /\ col < Len(h[h[obj.elems][row + 1]])
  THEN h[h[obj.elems][row + 1]][col + 1]
  ELSE Wild

\* every element of obj, row by row, when its storage is intact
Contents(h, obj) ==
  [r \in 0 .. obj.sz[1] - 1 |-> [c \in 0 .. obj.sz[2] - 1 |-> ElementAt(h, obj, r, c)]]

\* ------------------------------------------------- environments and inputs
\* What an uninitialised slot of a fresh row array may hold: nullptr, a stale
\* or arbitrary address, or the address of a live row buffer.
GarbageValues(h) == {Null, Wild} \cup (DOMAIN h \ {mats[m].elems : m \in Mats})

\* the garbage of the uninitialised slots U of the row array
GarbageOver(U, h) ==
  { [r \in 0 .. MaxRows - 1 |-> IF r \in U THEN gg[r] ELSE Null] :
      gg \in [U -> GarbageValues(h)] }

\* The environments of a populating operation over rows x cols: no fault,
\* T throwing on its k-th copy, or allocate throwing on its k-th call.
Envs(rows, cols, h) ==
  { [NoFault EXCEPT !.zeroNull = z] : z \in (IF rows = 0 THEN BOOLEAN ELSE {FALSE}) }
  \cup UNION { { [NoFault EXCEPT !.failCopy = k, !.garbage = g] :
                   g \in GarbageOver(((k - 1) \div cols + 1) .. (rows - 1), h) } :
               k \in 1 .. rows * cols }
  \cup UNION { { [NoFault EXCEPT !.failAlloc = k, !.garbage = g] :
                   g \in GarbageOver(IF k = 1 THEN {} ELSE (k - 2) .. (rows - 1), h) } :
               k \in 1 .. rows + 1 }

\* the input ranges of the range constructor for cols columns: the length is
\* a multiple of cols (asserted at lines 770 and 773)
Ranges(cols) ==
  IF cols = 0 THEN UNION {[1 .. n -> {DefaultValue}] : n \in 0 .. 1}
  ELSE UNION {[1 .. rows * cols -> Vals] : rows \in 0 .. MaxRows}

\* the indices tried by the checked access: in range, one past, and (size_t)-1
Indices(n) == 0 .. n \cup {SizeMod - 1}

\* ------------------------------------------------------------------ actions
Record(op, m, o, rows, cols, v, s, env, exc) ==
  [op |-> op, m |-> m, o |-> o, rows |-> rows, cols |-> cols, v |-> v, s |-> s,
   failCopy |-> env.failCopy, failAlloc |-> env.failAlloc, zeroNull |-> env.zeroNull,
   exc |-> exc]

Idle == Record("idle", "a", "a", 0, 0, 0, <<>>, NoFault, "none")

Obj(m) == [sz |-> mats[m].sz, space |-> mats[m].space, elems |-> mats[m].elems]
Alive(obj) == [alive |-> TRUE, sz |-> obj.sz, space |-> obj.space, elems |-> obj.elems]
Dead(obj) == [alive |-> FALSE, sz |-> obj.sz, space |-> obj.space, elems |-> obj.elems]

\* an operation may be called: the program is idle and the heap intact
Callable == last.op = "idle" /\ ~corrupt

\* a constructor ran on slot m in world w: the object exists iff it returned
Constructed(m, w) ==
  /\ mats' = [mats EXCEPT ![m] = IF w.exc = "none" THEN Alive(Members(w)) ELSE Dead(Members(w))]
  /\ heap' = w.heap
  /\ log' = w.log
  /\ corrupt' = w.ub

Init ==
  /\ mats = [m \in Mats |-> Dead(DefaultMembers)]
  /\ heap = <<>>
  /\ log = <<>>
  /\ last = Idle
  /\ corrupt = FALSE

\* explicit matrix() = default;
DefaultConstruct(m) ==
  /\ Callable /\ ~mats[m].alive
  /\ Constructed(m, World(DefaultMembers, heap))
  /\ last' = Record("default", m, m, 0, 0, 0, <<>>, NoFault, "none")

\* explicit matrix(size_type rows, size_type cols, const T& value)
FillConstruct(m) ==
  /\ Callable /\ ~mats[m].alive
  /\ \E rows \in 0 .. MaxRows, cols \in 0 .. MaxCols, v \in Vals :
       \E env \in Envs(rows, cols, heap) :
         LET w == construct_with_value(Under(World(DefaultMembers, heap), env), rows, cols, v)
         IN /\ Constructed(m, w)
            /\ last' = Record("fill", m, m, rows, cols, v, <<>>, env, w.exc)

\* explicit matrix(size_type rows, size_type cols)
FillDefaultConstruct(m) ==
  /\ Callable /\ ~mats[m].alive
  /\ \E rows \in 0 .. MaxRows, cols \in 0 .. MaxCols :
       \E env \in Envs(rows, cols, heap) :
         LET w == construct_with_value(Under(World(DefaultMembers, heap), env),
                                       rows, cols, DefaultValue)
         IN /\ Constructed(m, w)
            /\ last' = Record("fill_default", m, m, rows, cols, DefaultValue, <<>>, env, w.exc)

\* explicit matrix(size_type cols, It first, It last), also reached from
\* matrix(size_type cols, std::initializer_list<T> initList)
RangeConstruct(m) ==
  /\ Callable /\ ~mats[m].alive
  /\ \E cols \in 0 .. MaxCols :
       \E s \in Ranges(cols) :
         \E env \in Envs(IF cols = 0 THEN 0 ELSE Len(s) \div cols, cols, heap) :
           LET w == matrix_range(Under(World(DefaultMembers, heap), env), cols, s)
           IN /\ Constructed(m, w)
              /\ last' = Record("range", m, m,
                                IF cols = 0 THEN 0 ELSE Len(s) \div cols, cols, 0, s, env, w.exc)

CopyConstruct(m, o) ==
  /\ Callable /\ ~mats[m].alive /\ mats[o].alive
  /\ \E env \in Envs(mats[o].sz[1], mats[o].sz[2], heap) :
       LET w == matrix_copy(Under(World(DefaultMembers, heap), env), Obj(o))
       IN /\ Constructed(m, w)
          /\ last' = Record("copy", m, o, mats[o].sz[1], mats[o].sz[2], 0, <<>>, env, w.exc)

MoveConstruct(m, o) ==
  /\ Callable /\ ~mats[m].alive /\ mats[o].alive
  /\ LET r == matrix_move(Obj(o))
     IN mats' = [mats EXCEPT ![m] = Alive(r.this), ![o] = Alive(r.other)]
  /\ log' = <<>>
  /\ last' = Record("move", m, o, 0, 0, 0, <<>>, NoFault, "none")
  /\ UNCHANGED <<heap, corrupt>>

CopyAssign(m, o) ==
  /\ Callable /\ mats[m].alive /\ mats[o].alive
  /\ \E env \in (IF m = o THEN {NoFault} ELSE Envs(mats[o].sz[1], mats[o].sz[2], heap)) :
       LET r == copy_assign(Under(World(DefaultMembers, heap), env), Obj(m), Obj(o), m = o)
       IN /\ mats' = [mats EXCEPT ![m] = Alive(r.this)]
          /\ heap' = r.w.heap
          /\ log' = r.w.log
          /\ corrupt' = r.w.ub
          /\ last' = Record("copy_assign", m, o, mats[o].sz[1], mats[o].sz[2], 0, <<>>,
                            env, r.w.exc)

MoveAssign(m, o) ==
  /\ Callable /\ mats[m].alive /\ mats[o].alive
  /\ LET r == move_assign(Obj(m), Obj(o), m = o)
     IN mats' = [x \in Mats |-> IF x = m THEN Alive(r.this)
                                ELSE IF x = o THEN Alive(r.other) ELSE mats[x]]
  /\ log' = <<>>
  /\ last' = Record("move_assign", m, o, 0, 0, 0, <<>>, NoFault, "none")
  /\ UNCHANGED <<heap, corrupt>>

Swap(m, o) ==
  /\ Callable /\ mats[m].alive /\ mats[o].alive
  /\ LET r == swap(Obj(m), Obj(o))
     IN mats' = [x \in Mats |-> IF x = o THEN Alive(r.other)
                                ELSE IF x = m THEN Alive(r.this) ELSE mats[x]]
  /\ log' = <<>>
  /\ last' = Record("swap", m, o, 0, 0, 0, <<>>, NoFault, "none")
  /\ UNCHANGED <<heap, corrupt>>

Clear(m) ==
  /\ Callable /\ mats[m].alive
  /\ LET w == clear(World(Obj(m), heap))
     IN /\ mats' = [mats EXCEPT ![m] = Alive(Members(w))]
        /\ heap' = w.heap
        /\ log' = w.log
        /\ corrupt' = w.ub
  /\ last' = Record("clear", m, m, 0, 0, 0, <<>>, NoFault, "none")

\* ~matrix() { clear(); }
Destroy(m) ==
  /\ Callable /\ mats[m].alive
  /\ LET w == clear(World(Obj(m), heap))
     IN /\ mats' = [mats EXCEPT ![m] = Dead(Members(w))]
        /\ heap' = w.heap
        /\ log' = w.log
        /\ corrupt' = w.ub
  /\ last' = Record("destroy", m, m, 0, 0, 0, <<>>, NoFault, "none")

\* m[row][col] = v through operator[], within the matrix (no check is made)
Write(m) ==
  /\ Callable /\ mats[m].alive
  /\ \E row \in 0 .. mats[m].sz[1] - 1, col \in 0 .. mats[m].sz[2] - 1, v \in Vals :
       /\ heap' = [heap EXCEPT ![heap[mats[m].elems][row + 1]][col + 1] = v]
       /\ last' = Record("write", m, m, row, col, v, <<>>, NoFault, "none")
  /\ log' = <<>>
  /\ UNCHANGED <<mats, corrupt>>

\* m(row, col): the checked access; v is the element read when nothing is thrown
At(m) ==
  /\ Callable /\ mats[m].alive
  /\ \E row \in Indices(MaxRows), col \in Indices(MaxCols) :
       LET e == check_index(Obj(m), row, col)
       IN last' = Record("at", m, m, row, col,
                         IF e = "none" THEN ElementAt(heap, Obj(m), row, col) ELSE 0,
                         <<>>, NoFault, e)
  /\ log' = <<>>
  /\ UNCHANGED <<mats, heap, corrupt>>

\* ----------------------------------------------------- return to the caller
MatOrder == <<"a", "b">>

\* the live buffers an object refers to: its row array, then its rows
Refs(obj, h) ==
  IF obj.elems \in DOMAIN h
  THEN <<obj.elems>> \o SelectSeq(h[obj.elems], LAMBDA p : p \in DOMAIN h)
  ELSE <<>>

RECURSIVE Dedup(_, _)
Dedup(s, seen) ==
  IF s = <<>> THEN <<>>
  ELSE IF Head(s) \in seen THEN Dedup(Tail(s), seen)
  ELSE <<Head(s)>> \o Dedup(Tail(s), seen \cup {Head(s)})

RECURSIVE Ascending(_)
Ascending(S) ==
  IF S = {} THEN <<>>
  ELSE LET x == CHOOSE y \in S : \A z \in S : y <= z
       IN <<x>> \o Ascending(S \ {x})

Range(s) == {s[i] : i \in DOMAIN s}

\* the live addresses in canonical order
AddrOrder(ms, h) ==
  LET refs == Dedup(Refs(ms[MatOrder[1]], h) \o Refs(ms[MatOrder[2]], h), {})
  IN refs \o Ascending(DOMAIN h \ Range(refs))

Renamed(order, p) ==
  IF p \in Range(order) THEN CHOOSE i \in DOMAIN order : order[i] = p ELSE p

Return ==
  /\ last.op # "idle" /\ ~corrupt
  /\ LET live == [m \in Mats |-> IF mats[m].alive THEN mats[m] ELSE Dead(DefaultMembers)]
         order == AddrOrder(live, heap)
         rowArrays == {live[m].elems : m \in Mats}
     IN /\ mats' = [m \in Mats |-> [live[m] EXCEPT !.elems = Renamed(order, @)]]
        /\ heap' = [i \in DOMAIN order |->
                      IF order[i] \in rowArrays
                      THEN [j \in DOMAIN heap[order[i]] |-> Renamed(order, heap[order[i]][j])]
                      ELSE heap[order[i]]]
  /\ log' = <<>>
  /\ last' = Idle
  /\ UNCHANGED corrupt

Next ==
  \/ \E m \in Mats : DefaultConstruct(m)
  \/ \E m \in Mats : FillConstruct(m)
  \/ \E m \in Mats : FillDefaultConstruct(m)
  \/ \E m \in Mats : RangeConstruct(m)
  \/ \E m \in Mats, o \in Mats : CopyConstruct(m, o)
  \/ \E m \in Mats, o \in Mats : MoveConstruct(m, o)
  \/ \E m \in Mats, o \in Mats : CopyAssign(m, o)
  \/ \E m \in Mats, o \in Mats : MoveAssign(m, o)
  \/ \E m \in Mats, o \in Mats : Swap(m, o)
  \/ \E m \in Mats : Clear(m)
  \/ \E m \in Mats : Destroy(m)
  \/ \E m \in Mats : Write(m)
  \/ \E m \in Mats : At(m)
  \/ Return

Spec == Init /\ [][Next]_vars

\* ======================================================================
\* Properties
\* ======================================================================
Populating == {"fill", "fill_default", "range", "copy"}

\* the last operation was a populating constructor in which T's copy threw
ElementThrew == last.op \in Populating /\ last.exc = "element"

\* the position (row, column) of the copy that threw
ThrowRow == (last.failCopy - 1) \div last.cols
ThrowCol == (last.failCopy - 1) % last.cols

\* the positions constructed before the copy at (ThrowRow, ThrowCol) threw
Built ==
  {rc \in (0 .. last.rows - 1) \X (0 .. last.cols - 1) :
     rc[1] < ThrowRow \/ (rc[1] = ThrowRow /\ rc[2] < ThrowCol)}

Of(kind) == {k \in DOMAIN log : log[k][1] = kind}
At3(kind, row, col) == {k \in Of(kind) : log[k][3] = row /\ log[k][4] = col}
Handled(kinds, p) == {k \in DOMAIN log : log[k][1] \in kinds /\ log[k][2] = p}

\* C1: when the element construction at (r, c) throws in a fill, range or copy
\* construction, the unwind destructs exactly the elements constructed so far
\* (every element of the rows before r and elements 0..c-1 of row r), each
\* exactly once and after its construction, and destructs nothing else.
C1_UnwindDestroysExactlyBuilt ==
  ElementThrew =>
    /\ Of("dtor_uninit") = {}
    /\ \A rc \in Built :
         /\ Cardinality(At3("ctor", rc[1], rc[2])) = 1
         /\ Cardinality(At3("dtor", rc[1], rc[2])) = 1
         /\ \A i \in At3("ctor", rc[1], rc[2]), j \in At3("dtor", rc[1], rc[2]) :
              i < j /\ log[i][2] = log[j][2]
    /\ \A k \in Of("dtor") : <<log[k][3], log[k][4]>> \in Built

C1_Witness ==
  /\ ElementThrew
  /\ ThrowRow >= 1 /\ ThrowCol >= 1
  /\ Cardinality(Of("dtor")) = last.cols + ThrowCol

\* C2: when the element construction throws, deallocate is applied only to
\* buffers that were obtained from the allocator in this construction and not
\* yet released, and never to a row handle that was never allocated.
C2_UnwindDeallocatesOnlyAllocated ==
  ElementThrew =>
    /\ Of("dealloc_uninit") = {}
    /\ \A k \in Of("dealloc") :
         /\ \E j \in Of("alloc") : j < k /\ log[j][2] = log[k][2] /\ log[j][3] = log[k][3]
         /\ \A j \in Of("dealloc") : j < k => log[j][2] # log[k][2]

\* C3: when T throws on its N-th copy, as many buffers are deallocated as were
\* allocated, every allocated buffer is released exactly once, and none of
\* them is outstanding when the failure reaches the caller.
C3_NoAllocationOutstanding ==
  ElementThrew =>
    /\ Cardinality(Of("dealloc") \cup Of("dealloc_uninit")) = Cardinality(Of("alloc"))
    /\ \A j \in Of("alloc") :
         /\ Cardinality(Handled({"dealloc", "dealloc_uninit"}, log[j][2])) = 1
         /\ log[j][2] \notin DOMAIN heap

\* C4: a failure thrown by T's construction reaches the caller as that same
\* failure and only after the unwind: the rethrow is the last event of the
\* operation, and the matrix then has null storage and size and capacity (0,0).
C4_RethrownAfterUnwind ==
  (last.op \in Populating /\ last.failCopy > 0) =>
    /\ last.exc = "element"
    /\ log # <<>>
    /\ Of("rethrow") = {Len(log)}
    /\ mats[last.m].elems = Null
    /\ mats[last.m].sz = <<0, 0>>
    /\ mats[last.m].space = <<0, 0>>
    /\ ~mats[last.m].alive

C4_Witness ==
  /\ ElementThrew
  /\ last.failCopy > 1
  /\ Of("dtor") # {}
  /\ Of("rethrow") # {}

\* the members and the elements of object m
ObjState(ms, h, m) ==
  [sz |-> ms[m].sz, space |-> ms[m].space, elems |-> ms[m].elems,
   rows |-> IF ms[m].elems \in DOMAIN h
            THEN [i \in DOMAIN h[ms[m].elems] |->
                    IF h[ms[m].elems][i] \in DOMAIN h THEN h[h[ms[m].elems][i]] ELSE <<Wild>>]
            ELSE <<>>]

\* C5: copy assignment a = b in which an element copy throws leaves a's size,
\* capacity, storage handle and elements, and b, as they were; self-assignment
\* leaves a unchanged.
C5_CopyAssignStrongGuarantee ==
  [][(last'.op = "copy_assign" /\ (last'.exc = "element" \/ last'.m = last'.o)) =>
       /\ ObjState(mats', heap', last'.m) = ObjState(mats, heap, last'.m)
       /\ ObjState(mats', heap', last'.o) = ObjState(mats, heap, last'.o)]_vars

\* C6: for rows > 0 and cols > 0 the fill constructor yields size and capacity
\* (rows, cols), non-null storage and every element equal to v; without a
\* value, every element equal to T().
C6_FillConstructs ==
  (last.op \in {"fill", "fill_default"} /\ last.rows > 0 /\ last.cols > 0
     /\ last.exc = "none") =>
    /\ mats[last.m].alive
    /\ mats[last.m].sz = <<last.rows, last.cols>>
    /\ mats[last.m].space = <<last.rows, last.cols>>
    /\ mats[last.m].elems # Null
    /\ mats[last.m].elems \in DOMAIN heap
    /\ \A r \in 0 .. last.rows - 1, c \in 0 .. last.cols - 1 :
         ElementAt(heap, mats[last.m], r, c) =
           (IF last.op = "fill" THEN last.v ELSE DefaultValue)

C6_Witness ==
  /\ last.op = "fill" /\ last.exc = "none"
  /\ last.rows = MaxRows /\ last.cols = 1 /\ last.v # DefaultValue
  /\ ElementAt(heap, mats[last.m], MaxRows - 1, 0) = last.v

\* C7: construction raises InvalidArgument exactly when a fill constructor gets
\* exactly one zero dimension or the range constructor gets cols = 0 with a
\* non-empty range, and nothing has been allocated when it is raised.
C7_InvalidArgumentExactly ==
  /\ last.op \in {"fill", "fill_default"} =>
       (last.exc = "invalid_argument" <=> ((last.rows = 0) # (last.cols = 0)))
  /\ last.op = "range" =>
       (last.exc = "invalid_argument" <=> (last.cols = 0 /\ last.s # <<>>))
  /\ last.op \in {"default", "copy", "move"} => last.exc # "invalid_argument"
  /\ last.exc = "invalid_argument" => (log = <<>> /\ mats[last.m].elems = Null)

C7_Witness ==
  /\ last.op = "fill" /\ last.exc = "invalid_argument"
  /\ last.rows > 0 /\ last.cols = 0

\* C8: for cols > 0 and a range s whose length is a multiple of cols, the range
\* constructor yields cols columns, Len(s) / cols rows, capacity equal to size,
\* and element [r][c] equal to s[r * cols + c], every input element being
\* copied exactly once.
C8_RangeRowMajor ==
  (last.op = "range" /\ last.cols > 0 /\ last.exc = "none") =>
    /\ mats[last.m].sz = <<Len(last.s) \div last.cols, last.cols>>
    /\ mats[last.m].space = mats[last.m].sz
    /\ Cardinality(Of("ctor")) = Len(last.s)
    /\ \A r \in 0 .. (Len(last.s) \div last.cols) - 1, c \in 0 .. last.cols - 1 :
         ElementAt(heap, mats[last.m], r, c) = last.s[r * last.cols + c + 1]

C8_Witness ==
  /\ last.op = "range" /\ last.exc = "none"
  /\ last.cols = MaxCols /\ Len(last.s) = MaxRows * MaxCols
  /\ ElementAt(heap, mats[last.m], 1, 0) # ElementAt(heap, mats[last.m], 0, 0)

\* the buffers object m refers to
Buffers(m) ==
  IF mats[m].elems \in DOMAIN heap
  THEN {mats[m].elems} \cup (Range(heap[mats[m].elems]) \cap DOMAIN heap)
  ELSE {}

\* C9: copy construction from any reachable matrix S yields a matrix with S's
\* size and capacity component-wise and S's elements, in storage disjoint
\* from S's.
C9_CopyEqualAndDisjoint ==
  (last.op = "copy" /\ last.exc = "none") =>
    /\ mats[last.m].sz = mats[last.o].sz
    /\ mats[last.m].space = mats[last.o].space
    /\ ObjState(mats, heap, last.m).rows = ObjState(mats, heap, last.o).rows
    /\ Buffers(last.m) \cap Buffers(last.o) = {}

\* C10 as stated: after a move from S into D (move construction or move
\* assignment into a D in any prior state) S is empty and D holds S's prior
\* size, storage handle and elements.
C10_MoveLeavesSourceEmpty ==
  [][(last'.op \in {"move", "move_assign"} /\ last'.m # last'.o) =>
       /\ mats'[last'.o].sz = <<0, 0>> /\ mats'[last'.o].elems = Null
       /\ ObjState(mats', heap', last'.m) = ObjState(mats, heap, last'.o)]_vars

\* the members an object slot holds before the operation: those of the object,
\* or of a fresh object when the operation constructs it
Before(m) == IF mats[m].alive THEN ObjState(mats, heap, m)
             ELSE [sz |-> <<0, 0>>, space |-> <<0, 0>>, elems |-> Null, rows |-> <<>>]

\* C10 amended: after a move from S into a distinct D, D holds S's prior size,
\* capacity, storage handle and elements, and S holds what D held before: S is
\* in the empty state after a move construction and after a move assignment
\* into a D that was in the empty state.
C10_MoveExchanges ==
  [][(last'.op \in {"move", "move_assign"} /\ last'.m # last'.o) =>
       /\ ObjState(mats', heap', last'.m) = ObjState(mats, heap, last'.o)
       /\ ObjState(mats', heap', last'.o) = Before(last'.m)
       /\ mats'[last'.m].alive /\ mats'[last'.o].alive
       /\ heap' = heap
       /\ (last'.op = "move" \/ (mats[last'.m].sz = <<0, 0>> /\ mats[last'.m].elems = Null)) =>
            (mats'[last'.o].sz = <<0, 0>> /\ mats'[last'.o].elems = Null)]_vars

C10_Witness ==
  /\ last.op = "move_assign" /\ last.m # last.o
  /\ mats[last.o].sz[1] > 0 /\ mats[last.o].elems # Null
  /\ mats[last.m].sz[1] > 0 /\ mats[last.m].sz # mats[last.o].sz

\* the members (size, capacity, storage handle) of object m
MembersOf(ms, m) == [sz |-> ms[m].sz, space |-> ms[m].space, elems |-> ms[m].elems]

\* C11: a.swap(b) exchanges the size, capacity and storage handle of a and b,
\* constructs, destroys, allocates and deallocates nothing and does not throw;
\* b.swap(a) applied to the result gives back the members both had before.
C11_SwapExchangesAndInverts ==
  [][last'.op = "swap" =>
       /\ MembersOf(mats', last'.m) = MembersOf(mats, last'.o)
       /\ MembersOf(mats', last'.o) = MembersOf(mats, last'.m)
       /\ heap' = heap /\ log' = <<>> /\ last'.exc = "none"
       /\ corrupt' = corrupt
       /\ \A x \in Mats : mats'[x].alive = mats[x].alive
       /\ LET back == swap(MembersOf(mats', last'.o), MembersOf(mats', last'.m))
          IN /\ back.this = MembersOf(mats, last'.o)
             /\ back.other = MembersOf(mats, last'.m)]_vars

C11_Witness ==
  /\ last.op = "swap" /\ last.m # last.o
  /\ mats[last.m].elems # Null /\ mats[last.o].elems # Null
  /\ mats[last.m].sz = <<1, MaxCols>> /\ mats[last.o].sz = <<MaxRows, 1>>

\* the events of the trace l of the given kinds
OfIn(l, kinds) == {k \in DOMAIN l : l[k][1] \in kinds}

\* the buffers object m of (ms, h) refers to
BuffersIn(ms, h, m) ==
  IF ms[m].elems \in DOMAIN h
  THEN {ms[m].elems} \cup (Range(h[ms[m].elems]) \cap DOMAIN h)
  ELSE {}

\* C12: clear() on any reachable matrix destructs each element exactly once,
\* deallocates each row buffer and the row array exactly once, touches no row
\* index outside 0..rows-1, and leaves size and capacity (0,0), null storage
\* and empty() true; a second clear() changes nothing.
C12_ClearReleasesAll ==
  [][last'.op = "clear" =>
       LET m == last'.m
           rows == mats[m].sz[1]
           cols == mats[m].sz[2]
           again == clear(World(MembersOf(mats', m), heap'))
       IN /\ OfIn(log', {"oob", "dtor_uninit", "dealloc_uninit"}) = {}
          /\ \A k \in DOMAIN log' : log'[k][3] \in -1 .. rows - 1
          /\ \A r \in 0 .. rows - 1, c \in 0 .. cols - 1 :
               Cardinality({k \in OfIn(log', {"dtor"}) :
                              log'[k][3] = r /\ log'[k][4] = c}) = 1
          /\ Cardinality(OfIn(log', {"dtor"})) = rows * cols
          /\ \A p \in BuffersIn(mats, heap, m) :
               Cardinality({k \in OfIn(log', {"dealloc"}) : log'[k][2] = p}) = 1
          /\ Cardinality(OfIn(log', {"dealloc"})) = Cardinality(BuffersIn(mats, heap, m))
          /\ MembersOf(mats', m) = DefaultMembers
          /\ empty(MembersOf(mats', m))
          /\ Members(again) = MembersOf(mats', m)
          /\ again.heap = heap' /\ again.log = <<>>]_vars

\* C13: m(row, col) raises OutOfRange exactly when row >= size.rows or
\* col >= size.cols (always on an empty matrix, and for (size_t)-1); otherwise
\* it gives the element m[row][col].  The matrix is unchanged either way.
C13_CheckedAccess ==
  [][last'.op = "at" =>
       LET m == last'.m
           row == last'.rows
           col == last'.cols
       IN /\ last'.exc \in {"none", "out_of_range"}
          /\ last'.exc = "out_of_range" <=> (row >= mats[m].sz[1] \/ col >= mats[m].sz[2])
          /\ last'.exc = "none" =>
               /\ mats[m].elems \in DOMAIN heap
               /\ row < Len(heap[mats[m].elems])
               /\ heap[mats[m].elems][row + 1] \in DOMAIN heap
               /\ col < Len(heap[heap[mats[m].elems][row + 1]])
               /\ last'.v = heap[heap[mats[m].elems][row + 1]][col + 1]
               /\ last'.v \in Vals
          /\ mats[m].sz[1] * mats[m].sz[2] = 0 => last'.exc = "out_of_range"
          /\ mats' = mats /\ heap' = heap /\ log' = <<>> /\ corrupt' = corrupt]_vars

C13_Witness ==
  /\ last.op = "at" /\ last.exc = "out_of_range"
  /\ mats[last.m].sz = <<MaxRows, MaxCols>>
  /\ last.rows < MaxRows /\ last.cols = MaxCols

\* ----------------------------------------------- comparing two extents
\* The extents compared: every small shape, and shapes whose rows * cols does
\* not fit std::size_t.
Extents ==
  ((0 .. MaxExtent) \X (0 .. MaxExtent))
  \cup {<<SizeMod \div 2, 1>>, <<SizeMod \div 2, 2>>, <<2, SizeMod \div 2>>,
        <<SizeMod \div 2, MaxExtent>>}

\* two matrix_size_type values are constructed (line 270) ...
InitSize ==
  /\ mats = [m \in Mats |-> Dead(DefaultMembers)]
  /\ heap = <<>>
  /\ log = <<>>
  /\ corrupt = FALSE
  /\ last \in {[op |-> "extents", e1 |-> x, e2 |-> y] : x \in Extents, y \in Extents}

\* ... and compared with each of the six operators (lines 272-279)
Compare ==
  /\ last.op = "extents"
  /\ last' = [op |-> "compared", e1 |-> last.e1, e2 |-> last.e2,
              lt |-> SizeLt(last.e1, last.e2), ge |-> SizeGe(last.e1, last.e2),
              gt |-> SizeGt(last.e1, last.e2), le |-> SizeLe(last.e1, last.e2),
              eq |-> SizeEq(last.e1, last.e2), ne |-> SizeNe(last.e1, last.e2)]
  /\ UNCHANGED <<mats, heap, log, corrupt>>

NextSize == Compare

SpecSize == InitSize /\ [][NextSize]_vars

\* rows * cols as the operators compute it, in std::size_t
Product(e) == (e[1] * e[2]) % SizeMod

\* C14: for all extents e1, e2 (rows * cols being the std::size_t product):
\* e1 == e2 iff the products are equal, e1 < e2 iff e1's product is smaller,
\* exactly one of e1 < e2, e1 == e2, e1 > e2 holds, e1 <= e2 iff not e1 > e2,
\* e1 >= e2 iff not e1 < e2, and e1 != e2 iff not e1 == e2.
C14_ExtentsComparedByArea ==
  last.op = "compared" =>
    /\ last.eq <=> (Product(last.e1) = Product(last.e2))
    /\ last.lt <=> (Product(last.e1) < Product(last.e2))
    /\ last.gt <=> (Product(last.e1) > Product(last.e2))
    /\ Cardinality({x \in {"lt", "eq", "gt"} : last[x]}) = 1
    /\ last.le <=> ~last.gt
    /\ last.ge <=> ~last.lt
    /\ last.ne <=> ~last.eq

C14_Witness ==
  /\ last.op = "compared"
  /\ last.e1 = <<2, 3>> /\ last.e2 = <<3, 2>>
  /\ last.eq /\ last.le /\ last.ge /\ ~last.lt /\ ~last.gt /\ ~last.ne

\* C15: after every public operation has completed, normally or by throwing,
\* the capacity of every matrix equals its size, rows to rows and cols to cols.
C15_CapacityIsSize ==
  \A m \in Mats :
    /\ mats[m].space[1] = mats[m].sz[1]
    /\ mats[m].space[2] = mats[m].sz[2]

C15_Witness ==
  /\ last.op = "clear" /\ ~corrupt
  /\ Cardinality(Of("dtor")) = MaxRows * MaxCols
  /\ mats[last.m].alive
  /\ mats[last.m].space = <<0, 0>> /\ mats[last.m].sz = <<0, 0>>

\* C16: in every reachable state a matrix has size.rows = 0 and size.cols = 0
\* if and only if its storage handle is null.
C16_ZeroSizeIffNullStorage ==
  \A m \in Mats :
    mats[m].alive =>
      ((mats[m].sz[1] = 0 /\ mats[m].sz[2] = 0) <=> mats[m].elems = Null)

\* C17: in every reachable state the size of a matrix has both components zero
\* or both positive, never exactly one zero.
C17_NoSingleZeroSize ==
  \A m \in Mats :
    mats[m].alive => ((mats[m].sz[1] = 0) <=> (mats[m].sz[2] = 0))

\* the non-null handles object m holds: its row array and the rows stored in it
Handles(m) ==
  IF mats[m].elems = Null THEN {}
  ELSE {mats[m].elems} \cup
       (IF mats[m].elems \in DOMAIN heap
        THEN Range(heap[mats[m].elems]) \ {Raw, Null}
        ELSE {})

\* C18: after any sequence of operations no two live matrices hold the same
\* row array or row buffer, and so no buffer is deallocated twice and no
\* element destructed twice: every buffer a live matrix holds is still
\* allocated (nobody else has released it), and within an operation no buffer
\* is released twice and no element destructed twice.
C18_ExclusiveOwnership ==
  /\ \A a \in Mats, b \in Mats :
       (a # b /\ mats[a].alive /\ mats[b].alive) => Handles(a) \cap Handles(b) = {}
  /\ \A m \in Mats : mats[m].alive => Handles(m) \subseteq DOMAIN heap
  /\ \A i \in Of("dealloc"), j \in Of("dealloc") :
       (i < j /\ log[i][2] = log[j][2] /\ log[i][2] # Null) =>
         \E k \in Of("alloc") : i < k /\ k < j /\ log[k][2] = log[i][2]
  /\ \A i \in Of("dtor"), j \in Of("dtor") :
       i # j => <<log[i][2], log[i][4]>> # <<log[j][2], log[j][4]>>

\* C19: move assignment d = std::move(s) with d and s distinct does not throw
\* and constructs, destroys, allocates and deallocates nothing; afterwards d
\* holds s's prior storage handle, size and capacity and s holds d's (so s is
\* non-empty when d was); self move-assignment changes nothing.
C19_MoveAssignIsSwap ==
  [][last'.op = "move_assign" =>
       /\ last'.exc = "none" /\ log' = <<>> /\ heap' = heap /\ corrupt' = corrupt
       /\ \A x \in Mats \ {last'.m, last'.o} : mats'[x] = mats[x]
       /\ last'.m # last'.o =>
            /\ MembersOf(mats', last'.m) = MembersOf(mats, last'.o)
            /\ MembersOf(mats', last'.o) = MembersOf(mats, last'.m)
            /\ mats[last'.m].elems # Null => mats'[last'.o].elems # Null
            /\ ~empty(MembersOf(mats, last'.m)) => ~empty(MembersOf(mats', last'.o))
       /\ last'.m = last'.o => mats' = mats]_vars

C19_Witness ==
  /\ last.op = "move_assign" /\ last.m # last.o
  /\ mats[last.m].sz = <<MaxRows, MaxCols>> /\ mats[last.o].sz = <<1, 1>>
  /\ mats[last.m].elems \in DOMAIN heap /\ mats[last.o].elems \in DOMAIN heap

\* the last operation destroyed or cleared a non-empty matrix
TornDown == last.op \in {"clear", "destroy"} /\ Of("dtor") # {}

\* C20 as stated: when a non-empty matrix is destroyed or cleared, every
\* element is destructed before any buffer is deallocated, and the buffers are
\* released in the reverse of the order of acquisition: the row buffers from
\* the last row to the first, then the row array.
C20_ElementsFirstThenReverse ==
  TornDown =>
    /\ \A i \in Of("dtor"), j \in Of("dealloc") : i < j
    /\ \A i \in Of("dealloc"), j \in Of("dealloc") : i < j => log[i][3] > log[j][3]

\* C20 amended: when a non-empty matrix is destroyed or cleared, the rows are
\* torn down from the first to the last, the elements of a row being
\* destructed and its buffer then deallocated before the next row is touched;
\* the row array is deallocated last, after every element has been destructed.
C20_RowByRowThenRowArray ==
  TornDown =>
    /\ \A i \in Of("dtor"), j \in Of("dealloc") :
         /\ log[j][3] = log[i][3] => i < j
         /\ (log[j][3] >= 0 /\ log[j][3] < log[i][3]) => j < i
         /\ log[j][3] = -1 => i < j
    /\ \A i \in Of("dealloc"), j \in Of("dealloc") :
         (log[i][3] >= 0 /\ log[j][3] >= 0) => (i < j <=> log[i][3] < log[j][3])
    /\ \A i \in Of("dtor"), j \in Of("dtor") : log[i][3] < log[j][3] => i < j
    /\ log[Len(log)][1] = "dealloc" /\ log[Len(log)][3] = -1
    /\ Cardinality({k \in Of("dealloc") : log[k][3] = -1}) = 1
    /\ OfIn(log, {"alloc", "ctor", "oob", "dtor_uninit", "dealloc_uninit", "rethrow"}) = {}

C20_Witness ==
  /\ last.op = "destroy" /\ ~corrupt
  /\ Cardinality(Of("dtor")) = MaxRows * MaxCols
  /\ Cardinality(Of("dealloc")) = MaxRows + 1
  /\ \E i \in Of("dealloc"), j \in Of("dtor") : i < j

\* the last operation was a populating constructor in which the allocation of
\* a row buffer threw (the row array is the first allocation, row r the
\* (r + 2)-th)
RowAllocationThrew ==
  last.op \in Populating /\ last.exc = "bad_alloc" /\ last.failAlloc >= 2

\* the row whose allocation threw
FailedRow == last.failAlloc - 2

\* C21: when the allocator throws while allocating the buffer of row r in a
\* fill, range or copy construction, the unwind destructs exactly the elements
\* of rows 0..r-1, deallocates exactly the buffers of rows 0..r-1 and the row
\* array, and neither destructs a slot of row r nor deallocates row r.
C21_RowAllocationFailureUnwind ==
  RowAllocationThrew =>
    /\ OfIn(log, {"dtor_uninit", "dealloc_uninit", "oob"}) = {}
    /\ \A k \in OfIn(log, {"dtor", "dealloc"}) : log[k][3] < FailedRow
    /\ \A r \in 0 .. FailedRow - 1 :
         /\ Cardinality({k \in Of("dealloc") : log[k][3] = r}) = 1
         /\ \A c \in 0 .. last.cols - 1 : Cardinality(At3("dtor", r, c)) = 1
    /\ Cardinality({k \in Of("dealloc") : log[k][3] = -1}) = 1
    /\ Cardinality(Of("dtor")) = FailedRow * last.cols
    /\ Cardinality(Of("dealloc")) = FailedRow + 1
====
